---- MODULE Spec2Model ----
(***************************************************************************)
(* A model of sd-webui-supermerger's prompt utilities                      *)
(* (scripts/mergers/prompt_utils.py) and of the generation-parameter       *)
(* getter (scripts/GenParamGetter.py, scripts/mergers/components.py).      *)
(*                                                                         *)
(* Python strings are sequences of one-character strings.  Python values   *)
(* whose type matters (a prompt that may be None, a metadata field that    *)
(* may be a list) are records [t |-> type, v |-> payload].                 *)
(***************************************************************************)
EXTENDS Integers, Sequences, FiniteSets, TLC

VARIABLES
    \* ---- the environment build_output_name_lookup reads
    loraModule,        \* outcome of `import lora`
    available_loras,   \* lora.available_loras, in dict order
    loraDir,           \* what get_lora_directory()/exists() resolve to
    files,             \* lora_dir.glob("**/*.safetensors"), in glob order
    \* ---- one call of extract_loras_from_prompt / build_output_name_lookup
    prompt, selectable_loras,
    pc,                \* position of the call
    parsed, output_name_lookup, scanned,
    cursor,            \* index of the next element of `parsed` in the for loop
    checked_loras, formatted_parts,
    result,            \* the returned value
    \* ---- GenParamGetter and the components registry
    txt2img_gen_button, img2img_gen_button, events_assigned,
    txt2img_params, img2img_params,
    slots,             \* the components.* button slots that hold a component
    wired,             \* click handlers wired on each button
    demo,              \* the Blocks object of the running call
    outcome,           \* how the last get_params_components call ended
    before,            \* the registry as the last call found it
    calls

envVars == <<loraModule, available_loras, loraDir, files>>
callVars == <<prompt, selectable_loras, pc, parsed, output_name_lookup, scanned,
              cursor, checked_loras, formatted_parts, result>>
uiVars == <<txt2img_gen_button, img2img_gen_button, events_assigned,
            txt2img_params, img2img_params, slots, wired, demo, outcome,
            before, calls>>
vars == <<envVars, callVars, uiVars>>

(***************************************************************************)
(* Python values                                                           *)
(***************************************************************************)
PyNone == [t |-> "None", v |-> <<>>]
PyStr(s) == [t |-> "str", v |-> s]
PyInt(s) == [t |-> "int", v |-> s]
PyList(s) == [t |-> "list", v |-> s]

\* bool(x) for the values above
Truthy(x) ==
    CASE x.t = "None" -> FALSE
      [] x.t = "int" -> x.v # <<"0">>
      [] OTHER -> x.v # <<>>

(***************************************************************************)
(* Strings                                                                 *)
(***************************************************************************)
Whitespace == {" ", "\t", "\n", "\r"}
Digits == {"0", "1", "2", "3", "4", "5", "6", "7", "8", "9"}
DigitChars == <<"0", "1", "2", "3", "4", "5", "6", "7", "8", "9">>
Upper == <<"A","B","C","D","E","F","G","H","I","J","K","L","M",
           "N","O","P","Q","R","S","T","U","V","W","X","Y","Z">>
Lower == <<"a","b","c","d","e","f","g","h","i","j","k","l","m",
           "n","o","p","q","r","s","t","u","v","w","x","y","z">>

Slice(s, a, b) == IF a > b THEN <<>> ELSE SubSeq(s, a, b)

RECURSIVE Flatten(_)
Flatten(ss) == IF ss = <<>> THEN <<>> ELSE Head(ss) \o Flatten(Tail(ss))

\* sep.join(parts)
RECURSIVE Join(_, _)
Join(sep, parts) ==
    IF parts = <<>> THEN <<>>
    ELSE IF Len(parts) = 1 THEN parts[1]
    ELSE parts[1] \o sep \o Join(sep, Tail(parts))

\* str.lower()
LowerChar(c) ==
    IF \E k \in 1..Len(Upper) : Upper[k] = c
    THEN Lower[CHOOSE k \in 1..Len(Upper) : Upper[k] = c]
    ELSE c
PyLower(s) == [k \in 1..Len(s) |-> LowerChar(s[k])]

\* str.strip() with a bug: only the left side is stripped
StripLeftOnly(s) ==
    LET first == IF \E k \in 1..Len(s) : s[k] \notin Whitespace
                 THEN CHOOSE k \in 1..Len(s) :
                          s[k] \notin Whitespace /\ \A j \in 1..(k-1) : s[j] \in Whitespace
                 ELSE Len(s) + 1
    IN  Slice(s, first, Len(s))

\* str.strip()
PyStrip(s) ==
    LET keep == {k \in 1..Len(s) : s[k] \notin Whitespace}
    IN  IF keep = {} THEN <<>>
        ELSE Slice(s, CHOOSE k \in keep : \A j \in keep : k <= j,
                      CHOOSE k \in keep : \A j \in keep : k >= j)

(***************************************************************************)
(* float(text) and the rendering of a float in an f-string                 *)
(*                                                                         *)
(* A float is [neg, ip, fp]: sign, integer part, and the fraction's digits *)
(* without trailing zeros.  float() accepts surrounding whitespace, an     *)
(* optional sign and a decimal literal with at least one digit.  The       *)
(* exponent, underscore, "inf" and "nan" forms need characters that no     *)
(* modelled prompt contains.                                               *)
(***************************************************************************)
RECURSIVE DigitsToNat(_)
DigitsToNat(ds) ==
    IF ds = <<>> THEN 0
    ELSE 10 * DigitsToNat(Slice(ds, 1, Len(ds) - 1))
         + ((CHOOSE k \in 1..10 : DigitChars[k] = ds[Len(ds)]) - 1)

RECURSIVE NatToDigits(_)
NatToDigits(n) ==
    IF n < 10 THEN <<DigitChars[n + 1]>>
    ELSE NatToDigits(n \div 10) \o <<DigitChars[(n % 10) + 1]>>

RECURSIVE DropTrailingZeros(_)
DropTrailingZeros(ds) ==
    IF ds # <<>> /\ ds[Len(ds)] = "0"
    THEN DropTrailingZeros(Slice(ds, 1, Len(ds) - 1))
    ELSE ds

AllDigits(ds) == \A k \in 1..Len(ds) : ds[k] \in Digits

DefaultWeight == [neg |-> FALSE, ip |-> 1, fp |-> <<>>]
ZeroWeight == [neg |-> FALSE, ip |-> 0, fp |-> <<>>]

\* float(text): [ok |-> FALSE] stands for ValueError
PyFloat(text) ==
    LET t == PyStrip(text)
        signed == t # <<>> /\ t[1] \in {"-", "+"}
        body == IF signed THEN Tail(t) ELSE t
        dots == {k \in 1..Len(body) : body[k] = "."}
        ipart == IF dots = {} THEN body
                 ELSE Slice(body, 1, (CHOOSE k \in dots : TRUE) - 1)
        fpart == IF dots = {} THEN <<>>
                 ELSE Slice(body, (CHOOSE k \in dots : TRUE) + 1, Len(body))
    IN  IF Cardinality(dots) <= 1 /\ AllDigits(ipart) /\ AllDigits(fpart)
           /\ Len(ipart) + Len(fpart) >= 1
        THEN [ok |-> TRUE,
              val |-> [neg |-> signed /\ t[1] = "-",
                       ip |-> DigitsToNat(ipart),
                       fp |-> DropTrailingZeros(fpart)]]
        ELSE [ok |-> FALSE, val |-> DefaultWeight]

\* a weight parse that falls back to 0.0
WeightOrZero(text) ==
    IF PyFloat(text).ok THEN PyFloat(text).val ELSE ZeroWeight

\* try: weight = float(group 2)  except ValueError: weight = 1.0
WeightOf(text) ==
    IF PyFloat(text).ok THEN PyFloat(text).val ELSE DefaultWeight

\* f"{weight}": repr of a float of magnitude in [1e-4, 1e16), or zero
FormatFloat(w) ==
    (IF w.neg THEN <<"-">> ELSE <<>>)
    \o NatToDigits(w.ip) \o <<".">>
    \o (IF w.fp = <<>> THEN <<"0">> ELSE w.fp)

(***************************************************************************)
(* The pattern  <lora:([^:>]+):([^:>]+)(?::([^>]+))?>  and re.finditer     *)
(***************************************************************************)
LoraTag == <<"<", "l", "o", "r", "a", ":">>

HasPrefixAt(s, p, pre) ==
    /\ p + Len(pre) - 1 <= Len(s)
    /\ \A k \in 1..Len(pre) : s[p + k - 1] = pre[k]

\* end (exclusive) of the longest run from i of characters outside `stop`
RunEnd(s, i, stop) ==
    CHOOSE j \in i..(Len(s) + 1) :
        /\ \A k \in i..(j - 1) : s[k] \notin stop
        /\ (j = Len(s) + 1 \/ s[j] \in stop)

NoMatch == [ok |-> FALSE, g1 |-> <<>>, g2 |-> <<>>, has3 |-> FALSE,
            g3 |-> <<>>, end |-> 0]

\* the match of the pattern that starts at position p, if there is one.
\* Each class excludes the character that must follow it, so the greedy
\* runs are the only candidates.
MatchAt(s, p) ==
    IF ~HasPrefixAt(s, p, LoraTag) THEN NoMatch
    ELSE
      LET a == p + Len(LoraTag)
          e1 == RunEnd(s, a, {":", ">"})
      IN
      IF e1 = a \/ e1 > Len(s) \/ s[e1] # ":" THEN NoMatch
      ELSE
        LET b == e1 + 1
            e2 == RunEnd(s, b, {":", ">"})
        IN
        IF e2 = b \/ e2 > Len(s) THEN NoMatch
        ELSE IF s[e2] = ">"
        THEN [ok |-> TRUE, g1 |-> Slice(s, a, e1 - 1), g2 |-> Slice(s, b, e2 - 1),
              has3 |-> FALSE, g3 |-> <<>>, end |-> e2]
        ELSE
          LET c == e2 + 1
              e3 == RunEnd(s, c, {">"})
          IN
          IF e3 = c \/ e3 > Len(s) THEN NoMatch
          ELSE [ok |-> TRUE, g1 |-> Slice(s, a, e1 - 1), g2 |-> Slice(s, b, e2 - 1),
                has3 |-> TRUE, g3 |-> Slice(s, c, e3 - 1), end |-> e3]

\* re.finditer(pattern, s) from position p: leftmost, non-overlapping
RECURSIVE FindIter(_, _)
FindIter(s, p) ==
    IF p > Len(s) THEN <<>>
    ELSE IF MatchAt(s, p).ok
         THEN <<MatchAt(s, p)>> \o FindIter(s, MatchAt(s, p).end + 1)
         ELSE FindIter(s, p + 1)

\* the lbw field of a match, with only its left side stripped
LbwLeftStripped(m) ==
    IF m.has3 THEN PyStr(StripLeftOnly(m.g3)) ELSE PyNone

\* lbw = match.group(3).strip() if match.group(3) else None
LbwOf(m) ==
    IF m.has3 /\ m.g3 # <<>> THEN PyStr(PyStrip(m.g3)) ELSE PyNone

\* parse_lora_syntax(prompt): the (name, weight, lbw) tuples
parse_lora_syntax(s) ==
    LET ms == FindIter(s, 1)
    IN  [k \in 1..Len(ms) |->
            [name |-> PyStrip(ms[k].g1),
             weight |-> WeightOf(ms[k].g2),
             lbw |-> LbwOf(ms[k])]]

(***************************************************************************)
(* The metadata sources                                                    *)
(*                                                                         *)
(* A metadata value is [t, other, ss]: its Python type, whether it holds   *)
(* anything besides ss_output_name, and the ss_output_name field           *)
(* (Absent when the key is missing).                                       *)
(***************************************************************************)
Absent == [t |-> "absent", v |-> <<>>]
Meta(t, other, ss) == [t |-> t, other |-> other, ss |-> ss]
EmptyDict == Meta("dict", FALSE, Absent)

MetaTruthy(m) ==
    CASE m.t = "dict" -> m.other \/ m.ss.t # "absent"
      [] m.t = "None" -> FALSE
      [] OTHER -> m.other

NameA == <<"A">>
NameF == <<"F">>
NameT == <<"T">>
NameZ == <<"Z">>
Merged == <<"M", "e", "r", "g", "e", "d">>
merged == <<"m", "e", "r", "g", "e", "d">>

\* identifiers of the registry entries / stems of the files, by position
Identifiers == <<NameF, NameA, <<"G">>, <<"H">>, <<"I">>, <<"J">>>>

\* the metadata a registry object or a file header can carry
MetaOf(shape, id) ==
    CASE shape = "None" -> Meta("None", FALSE, Absent)
      [] shape = "list" -> Meta("list", TRUE, Absent)
      [] shape = "nokey" -> Meta("dict", TRUE, Absent)
      [] shape = "trained" -> Meta("dict", TRUE, PyStr(NameT))
      [] shape = "self" -> Meta("dict", TRUE, PyStr(id))
      [] shape = "merged" -> Meta("dict", TRUE, PyStr(Merged))
      [] shape = "sslist" -> Meta("dict", TRUE, PyList(<<"T">>))
      [] shape = "empty" -> Meta("dict", TRUE, PyStr(<<>>))
      [] OTHER -> EmptyDict

RegShapes == {"noattr", "None", "list", "nokey", "trained", "self", "merged", "sslist"}
RegEntry(shape, id) ==
    [name |-> id, hasMeta |-> shape # "noattr", metadata |-> MetaOf(shape, id)]

FileShapes == {"unreadable", "truncated", "headerlist", "nometa", "list", "nokey",
               "trained", "self", "merged", "sslist"}
FileEntry(shape, id) ==
    [stem |-> id,
     io |-> IF shape \in {"unreadable", "truncated"} THEN shape ELSE "ok",
     header |-> IF shape = "headerlist" THEN "list" ELSE "dict",
     hasMeta |-> shape \notin {"unreadable", "truncated", "headerlist", "nometa"},
     metadata |-> MetaOf(shape, id)]

(***************************************************************************)
(* Dictionaries: functions from keys (Python values) to strings            *)
(***************************************************************************)
EmptyLookup == <<>>
Put(d, k, val) == [x \in (DOMAIN d) \cup {k} |-> IF x = k THEN val ELSE d[x]]

(***************************************************************************)
(* get_lora_directory, load_lora_metadata, build_output_name_lookup        *)
(***************************************************************************)
\* None without the host, else the configured or default path
get_lora_directory(dir) == IF dir = "None" THEN PyNone ELSE PyStr(<<"d">>)

\* the metadata of a file, or None if it cannot be read.  Everything from
\* open() to header.get() is inside the try block.
load_lora_metadata(f) ==
    IF f.io # "ok" THEN Meta("None", FALSE, Absent)
    ELSE IF f.header # "dict" THEN Meta("None", FALSE, Absent)
    ELSE IF f.hasMeta THEN f.metadata ELSE EmptyDict

\* one iteration of the loop over lora.available_loras.items(); every
\* exception raised inside it is swallowed
RegistryStep(lookup, e) ==
    IF ~(e.hasMeta /\ MetaTruthy(e.metadata)) THEN lookup
    ELSE IF e.metadata.t # "dict" THEN lookup               \* .get: AttributeError
    ELSE LET ss_output == IF e.metadata.ss.t = "absent" THEN PyStr(<<>>)
                          ELSE e.metadata.ss
         IN  IF ~Truthy(ss_output) THEN lookup
             ELSE IF ss_output.t = "str" /\ ss_output.v = e.name THEN lookup
             ELSE IF ss_output.t # "str" THEN lookup        \* .lower: AttributeError
             ELSE IF PyLower(ss_output.v) = merged THEN lookup
             ELSE Put(lookup, ss_output, e.name)

RECURSIVE RegistryLoop(_, _)
RegistryLoop(lookup, es) ==
    IF es = <<>> THEN lookup
    ELSE RegistryLoop(RegistryStep(lookup, Head(es)), Tail(es))

Built(lookup, seen) == [status |-> "ok", lookup |-> lookup, scanned |-> seen]
Raised(exc, seen) == [status |-> exc, lookup |-> EmptyLookup, scanned |-> seen]

\* the loop over lora_dir.glob("**/*.safetensors"); `seen` are the files
\* opened so far
RECURSIVE ScanLoop(_, _, _)
ScanLoop(lookup, fs, seen) ==
    IF fs = <<>> THEN Built(lookup, seen)
    ELSE
      LET f == Head(fs)
          metadata == load_lora_metadata(f)
          now == Append(seen, f.stem)
      IN
      IF ~MetaTruthy(metadata) THEN ScanLoop(lookup, Tail(fs), now)
      ELSE IF metadata.t # "dict" THEN Raised("AttributeError", now)
      ELSE IF metadata.ss.t = "absent" \/ ~Truthy(metadata.ss)
           THEN ScanLoop(lookup, Tail(fs), now)
      ELSE IF metadata.ss.t = "list" THEN Raised("TypeError", now)
      ELSE ScanLoop(Put(lookup, metadata.ss, f.stem), Tail(fs), now)

\* the fallback: scan the files of the LoRA directory
ScanDirectory(dir, fs) ==
    IF ~Truthy(get_lora_directory(dir)) \/ dir # "exists"
    THEN Built(EmptyLookup, <<>>)
    ELSE ScanLoop(EmptyLookup, fs, <<>>)

\* a build that falls through to the files when the registry yields nothing
BuildFallsThrough(module, table, dir, fs) ==
    IF module = "ok" /\ RegistryLoop(EmptyLookup, table) # EmptyLookup
    THEN Built(RegistryLoop(EmptyLookup, table), <<>>)
    ELSE ScanDirectory(dir, fs)

build_output_name_lookup(module, table, dir, fs) ==
    CASE module = "ok" -> Built(RegistryLoop(EmptyLookup, table), <<>>)
      [] module = "noTable" -> Raised("AttributeError", <<>>)
      [] OTHER -> ScanDirectory(dir, fs)

(***************************************************************************)
(* extract_loras_from_prompt                                               *)
(***************************************************************************)
\* selectable_loras or []
SelectableOrEmpty(sel) == IF sel.t = "list" THEN sel.v ELSE <<>>

InList(x, xs) == \E k \in 1..Len(xs) : xs[k] = x

\* the canonical part of one parsed reference
FormatPart(ref) ==
    IF Truthy(ref.lbw)
    THEN ref.name \o <<":">> \o FormatFloat(ref.weight) \o <<":">> \o ref.lbw.v
    ELSE ref.name \o <<":">> \o FormatFloat(ref.weight)

\* the matching of one reference, without the check of the mapped identifier
MatchUnchecked(checked, name, sel, lookup) ==
    IF InList(name, sel) THEN Append(checked, name)
    ELSE IF PyStr(name) \in DOMAIN lookup THEN Append(checked, lookup[PyStr(name)])
    ELSE checked

\* the matching of one reference, recording each identifier once
MatchOnce(checked, name, sel, lookup) ==
    LET hit == IF InList(name, sel) THEN <<name>>
               ELSE IF PyStr(name) \in DOMAIN lookup /\ InList(lookup[PyStr(name)], sel)
                    THEN <<lookup[PyStr(name)]>>
               ELSE <<>>
    IN  IF hit # <<>> /\ InList(hit[1], checked) THEN checked ELSE checked \o hit

\* the matching of one reference: checked_loras after the if/elif
MatchStep(checked, name, sel, lookup) ==
    IF InList(name, sel) THEN Append(checked, name)
    ELSE IF PyStr(name) \in DOMAIN lookup
         THEN LET actual_filename == lookup[PyStr(name)]
              IN  IF InList(actual_filename, sel)
                  THEN Append(checked, actual_filename)
                  ELSE checked
    ELSE checked

NoResult == [matched |-> <<>>, canonical |-> <<>>]

\* entry of extract_loras_from_prompt up to the for loop
Start ==
    /\ pc = "idle"
    /\ IF ~Truthy(prompt) \/ prompt.t # "str"
       THEN /\ pc' = "done"
            /\ result' = [matched |-> <<>>, canonical |-> <<>>]
            /\ UNCHANGED <<parsed, output_name_lookup, scanned>>
       ELSE LET b == build_output_name_lookup(loraModule, available_loras, loraDir, files)
            IN  /\ parsed' = parse_lora_syntax(prompt.v)
                /\ scanned' = b.scanned
                /\ output_name_lookup' = b.lookup
                /\ pc' = IF b.status = "ok" THEN "loop" ELSE "raised"
                /\ UNCHANGED result
    /\ UNCHANGED <<envVars, uiVars, prompt, selectable_loras, cursor,
                   checked_loras, formatted_parts>>

\* one iteration of `for name, weight, lbw in parsed`
LoopStep ==
    /\ pc = "loop"
    /\ cursor <= Len(parsed)
    /\ formatted_parts' = Append(formatted_parts, FormatPart(parsed[cursor]))
    /\ checked_loras' = MatchStep(checked_loras, parsed[cursor].name,
                                  SelectableOrEmpty(selectable_loras), output_name_lookup)
    /\ cursor' = cursor + 1
    /\ UNCHANGED <<envVars, uiVars, prompt, selectable_loras, pc, parsed,
                   output_name_lookup, scanned, result>>

\* return checked_loras, ",".join(formatted_parts)
Return ==
    /\ pc = "loop"
    /\ cursor > Len(parsed)
    /\ result' = [matched |-> checked_loras,
                  canonical |-> Join(<<",">>, formatted_parts)]
    /\ pc' = "done"
    /\ UNCHANGED <<envVars, uiVars, prompt, selectable_loras, parsed,
                   output_name_lookup, scanned, cursor, checked_loras, formatted_parts>>

(***************************************************************************)
(* Inputs                                                                  *)
(***************************************************************************)
MaxRefs == 3       \* references in a prompt of the order cases
MaxSel == 2        \* length of selectable_loras
MaxEntries == 2    \* entries of lora.available_loras
MaxFiles == 2      \* files of the LoRA directory

RefText(name, w, lbw) ==
    LoraTag \o name \o <<":">> \o w
    \o (IF lbw.t = "str" THEN <<":">> \o lbw.v ELSE <<>>) \o <<">">>

\* prompts of several plain references, for order and duplicates
DeepRefs == {RefText(n, <<"1">>, PyNone) : n \in {NameA, NameT, NameZ}}
DeepPrompts ==
    UNION {{Flatten(f) : f \in [1..k -> DeepRefs]} : k \in 0..MaxRefs}

\* prompts of one reference, for the fields
NameTexts == {NameA, <<" ", "T", " ">>, NameZ}
WeightTexts == {<<"1">>, <<"0", ".", "8">>, <<"o", "o", "p", "s">>,
                <<".", "5", "0">>, <<" ", "1">>, <<"-", "0">>,
                <<"1", ".", "2", ".", "3">>, <<"0", "1", "2">>}
LbwTexts == {PyNone, PyStr(<<"0", ",", "0", ",", "1", ",", "1">>), PyStr(<<" ">>),
             PyStr(<<" ", "x", " ">>), PyStr(<<"1", ":", "2">>)}
WidePrompts ==
    {RefText(n, w, l) : n \in NameTexts, w \in WeightTexts, l \in LbwTexts}

\* prompts in which the pattern does not match where a reader might expect it
OddPrompts ==
    { <<"c", "a", "t">>,
      LoraTag \o NameA \o <<">">>,
      LoraTag \o NameA \o <<":", "1">>,
      LoraTag \o <<":", "1", ">">>,
      LoraTag \o NameA \o <<":", "1", ":", ">">>,
      LoraTag \o RefText(NameA, <<"1">>, PyNone),
      <<"x">> \o RefText(NameA, <<"1">>, PyNone) \o <<",", " ">>
              \o RefText(NameT, <<".", "5">>, PyStr(<<"1", ",", "0">>)) \o <<"y">> }

Prompts ==
    {PyNone, PyInt(<<"5">>), PyList(<<"x">>)}
    \cup {PyStr(s) : s \in DeepPrompts \cup WidePrompts \cup OddPrompts}

SelNames == {NameA, NameF, NameT}
Selectables ==
    {PyNone}
    \cup UNION {{[t |-> "list", v |-> f] :
                    f \in {g \in [1..k -> SelNames] :
                              \A i, j \in 1..k : i # j => g[i] # g[j]}}
                : k \in 0..MaxSel}

RegistriesOf(k) ==
    {[i \in 1..k |-> RegEntry(sh[i], Identifiers[i])] : sh \in [1..k -> RegShapes]}
FileListsOf(k) ==
    {[i \in 1..k |-> FileEntry(sh[i], Identifiers[i])] : sh \in [1..k -> FileShapes]}

Env(m, t, d, f) == [module |-> m, table |-> t, dir |-> d, files |-> f]

\* the metadata sources an extraction runs against
ExtractEnvs ==
    { Env("ok", <<RegEntry("trained", NameF)>>, "exists", <<FileEntry("list", NameA)>>),
      Env("ok", <<>>, "None", <<>>),
      Env("noTable", <<>>, "exists", <<FileEntry("trained", NameF)>>),
      Env("absent", <<>>, "None", <<>>),
      Env("absent", <<>>, "exists", <<FileEntry("unreadable", NameA),
                                      FileEntry("trained", NameF)>>),
      Env("absent", <<>>, "exists", <<FileEntry("list", NameF)>>),
      Env("absent", <<>>, "exists", <<FileEntry("self", NameT)>>) }

Unset == [set |-> FALSE, v |-> <<>>]
Params(ps) == [set |-> TRUE, v |-> ps]

UiIdle ==
    /\ txt2img_gen_button = "None"
    /\ img2img_gen_button = "None"
    /\ events_assigned = FALSE
    /\ txt2img_params = Unset
    /\ img2img_params = Unset
    /\ slots = {}
    /\ wired = <<>>
    /\ demo = <<>>
    /\ outcome = "none"
    /\ before = <<>>
    /\ calls = 0

Init ==
    /\ \E e \in ExtractEnvs :
          /\ loraModule = e.module
          /\ available_loras = e.table
          /\ loraDir = e.dir
          /\ files = e.files
    /\ prompt \in Prompts
    /\ selectable_loras \in Selectables
    /\ pc = "idle"
    /\ parsed = <<>>
    /\ output_name_lookup = EmptyLookup
    /\ scanned = <<>>
    /\ cursor = 1
    /\ checked_loras = <<>>
    /\ formatted_parts = <<>>
    /\ result = NoResult
    /\ UiIdle

Next == Start \/ LoopStep \/ Return

Spec == Init /\ [][Next]_vars

(***************************************************************************)
(* build_output_name_lookup on its own, over every state of its sources    *)
(***************************************************************************)
Registries == UNION {RegistriesOf(k) : k \in 0..MaxEntries}
FileLists == UNION {FileListsOf(k) : k \in 0..MaxFiles}

\* what is on disk while the registry is there to be preferred
DiskBesideRegistry ==
    { <<"None", <<>>>>,
      <<"exists", <<FileEntry("trained", <<"H">>)>>>>,
      <<"exists", <<FileEntry("list", <<"H">>)>>>> }
Disks ==
    {<<"None", <<>>>>, <<"missing", <<>>>>} \cup {<<"exists", f>> : f \in FileLists}

IndexEnvs ==
    {Env("ok", t, d[1], d[2]) : t \in Registries, d \in DiskBesideRegistry}
    \cup {Env("noTable", <<>>, d[1], d[2]) : d \in DiskBesideRegistry}
    \cup {Env("absent", <<>>, d[1], d[2]) : d \in Disks}

InitIndex ==
    /\ \E e \in IndexEnvs :
          /\ loraModule = e.module
          /\ available_loras = e.table
          /\ loraDir = e.dir
          /\ files = e.files
    /\ prompt = PyNone
    /\ selectable_loras = PyNone
    /\ pc = "idle"
    /\ parsed = <<>>
    /\ output_name_lookup = EmptyLookup
    /\ scanned = <<>>
    /\ cursor = 1
    /\ checked_loras = <<>>
    /\ formatted_parts = <<>>
    /\ result = NoResult
    /\ UiIdle

\* a call of build_output_name_lookup()
BuildIndex ==
    /\ pc = "idle"
    /\ LET b == build_output_name_lookup(loraModule, available_loras, loraDir, files)
       IN  /\ output_name_lookup' = b.lookup
           /\ scanned' = b.scanned
           /\ pc' = IF b.status = "ok" THEN "built" ELSE "raised"
    /\ UNCHANGED <<envVars, uiVars, prompt, selectable_loras, parsed, cursor,
                   checked_loras, formatted_parts, result>>

NextIndex == BuildIndex

SpecIndex == InitIndex /\ [][NextIndex]_vars

(***************************************************************************)
(* GenParamGetter and the components registry                              *)
(*                                                                         *)
(* A component is known by its _id (a string); "None" is Python's None.    *)
(* components.txt2img_params and components.img2img_params have no         *)
(* module-level default: until get_params_components assigns them they are *)
(* Unset, and reading one raises AttributeError.                           *)
(***************************************************************************)
ButtonOrder == <<"merge", "mergeandgen", "gen", "merge2", "mergeandgen2", "gen2",
                 "s_reserve", "s_reserve1", "gengrid", "s_startreserve", "rand_merge">>
Buttons == {ButtonOrder[k] : k \in 1..Len(ButtonOrder)}
Groups == {"msettings", "genparams", "hiresfix", "lucks", "xysettings", "imagegal"}
AllSlots == Buttons \cup Groups

\* the registry lists a button's click() call unpacks with *
Unpacked(b) ==
    CASE b \in {"merge", "merge2"} -> {"msettings", "genparams", "hiresfix", "lucks"}
      [] b \in {"mergeandgen", "mergeandgen2"} ->
             {"msettings", "genparams", "hiresfix", "lucks", "imagegal"}
      [] b \in {"gen", "gen2"} -> {"genparams", "hiresfix", "imagegal"}
      [] b \in {"s_reserve", "s_reserve1"} ->
             {"xysettings", "msettings", "genparams", "hiresfix", "lucks"}
      [] OTHER -> {"xysettings", "msettings", "genparams", "hiresfix", "lucks", "imagegal"}

NoHandlers == [b \in Buttons |-> 0]

\* _setup_click_events from its k-th click() call on: the call raises when the
\* button slot is None or a list it unpacks is None, and nothing after runs
RECURSIVE SetupFrom(_, _, _)
SetupFrom(k, w, sl) ==
    IF k > Len(ButtonOrder) THEN [ok |-> TRUE, wired |-> w]
    ELSE LET b == ButtonOrder[k]
         IN  IF b \notin sl \/ ~(Unpacked(b) \subseteq sl)
             THEN [ok |-> FALSE, wired |-> w]
             ELSE SetupFrom(k + 1, [w EXCEPT ![b] = @ + 1], sl)

_setup_click_events(w, sl) == SetupFrom(1, w, sl)

\* after_component: remember the two generate buttons
after_component(elem_id) ==
    /\ txt2img_gen_button' =
          IF elem_id = "txt2img_generate" THEN "id_txt2img" ELSE txt2img_gen_button
    /\ img2img_gen_button' =
          IF elem_id = "img2img_generate" THEN "id_img2img" ELSE img2img_gen_button
    /\ UNCHANGED <<envVars, callVars, events_assigned, txt2img_params, img2img_params,
                   slots, wired, demo, outcome, before, calls>>

AfterComponent ==
    \E elem_id \in {"txt2img_generate", "img2img_generate", "other"} :
        after_component(elem_id)

\* the click dependencies of the button _id
ClickDeps(d, id) ==
    SelectSeq(d.deps, LAMBDA x : x.target = id /\ x.trigger = "click")

\* next((d for d in deps if len(d["outputs"]) == 4), None)
NoDep == [target |-> "None", trigger |-> "", outputs |-> <<>>, inputs |-> <<>>]
FirstDep(deps) ==
    LET four == SelectSeq(deps, LAMBDA x : Len(x.outputs) = 4)
    IN  IF four = <<>> THEN NoDep ELSE four[1]

compare_components_with_ids(comps, ids) == comps = ids

\* one pass of the loop over the two tabs: what is done about the params
TabParams(d, id) ==
    LET dep == FirstDep(ClickDeps(d, id))
        matching == SelectSeq(d.fns,
                        LAMBDA p : compare_components_with_ids(p.inputs, dep.inputs))
    IN  IF dep = NoDep THEN [kind |-> "skip", params |-> <<>>]
        ELSE IF d.g4
             THEN IF \E k \in 1..Len(dep.inputs) : dep.inputs[k] \notin d.blocks
                  THEN [kind |-> "error", params |-> <<>>]
                  ELSE [kind |-> "set", params |-> dep.inputs]
        ELSE IF matching = <<>> THEN [kind |-> "skip", params |-> <<>>]
        ELSE [kind |-> "set", params |-> matching[1].inputs]

Registry == [txt |-> txt2img_params, img |-> img2img_params, events |-> events_assigned,
             wired |-> wired, txt_button |-> txt2img_gen_button,
             img_button |-> img2img_gen_button]

get_params_components(d) ==
    /\ demo' = d
    /\ before' = Registry
    /\ calls' = calls + 1
    /\ IF txt2img_gen_button = "None" \/ img2img_gen_button = "None"
       THEN /\ outcome' = "returned"
            /\ UNCHANGED <<txt2img_params, img2img_params, events_assigned, wired>>
       ELSE
         LET t == TabParams(d, txt2img_gen_button)
             i == TabParams(d, img2img_gen_button)
             tp == IF t.kind = "set" THEN Params(t.params) ELSE txt2img_params
             ip == IF i.kind = "set" THEN Params(i.params) ELSE img2img_params
             done == _setup_click_events(wired, slots)
         IN
         /\ txt2img_params' = tp
         /\ img2img_params' = ip
         /\ IF events_assigned
            THEN /\ outcome' = "returned"
                 /\ UNCHANGED <<events_assigned, wired>>
            ELSE IF ~tp.set
            THEN /\ outcome' = "raised"            \* AttributeError
                 /\ UNCHANGED <<events_assigned, wired>>
            ELSE IF tp.v = <<>>
            THEN /\ outcome' = "returned"
                 /\ UNCHANGED <<events_assigned, wired>>
            ELSE /\ outcome' = "returned"
                 /\ wired' = done.wired
                 /\ events_assigned' = done.ok
    /\ UNCHANGED <<envVars, callVars, txt2img_gen_button, img2img_gen_button, slots>>

MaxCalls == 3      \* calls of get_params_components

Dep(target, trigger, nout, inputs) ==
    [target |-> target, trigger |-> trigger,
     outputs |-> [k \in 1..nout |-> "out"], inputs |-> inputs]
TxtInputs == <<"p1", "p2">>
ImgInputs == <<"q1">>
Demo(g4, deps, fns, blocks) == [g4 |-> g4, deps |-> deps, fns |-> fns, blocks |-> blocks]
Fn(inputs) == [inputs |-> inputs]

Demos ==
    { \* both tabs have their generate dependency
      Demo(FALSE, <<Dep("id_txt2img", "click", 4, TxtInputs),
                    Dep("id_img2img", "click", 4, ImgInputs)>>,
           <<Fn(ImgInputs), Fn(TxtInputs)>>, {}),
      \* no dependency at all
      Demo(FALSE, <<>>, <<>>, {}),
      \* txt2img has no click dependency with 4 outputs, img2img has
      Demo(FALSE, <<Dep("id_txt2img", "click", 3, TxtInputs),
                    Dep("id_txt2img", "change", 4, TxtInputs),
                    Dep("id_img2img", "click", 4, ImgInputs)>>,
           <<Fn(ImgInputs), Fn(TxtInputs)>>, {}),
      \* no function takes the dependency's inputs
      Demo(FALSE, <<Dep("id_txt2img", "click", 4, TxtInputs)>>, <<Fn(ImgInputs)>>, {}),
      \* the dependency has no input
      Demo(FALSE, <<Dep("id_txt2img", "click", 4, <<>>)>>, <<Fn(<<>>)>>, {}),
      \* a Blocks without .dependencies: the ids are looked up in demo.blocks
      Demo(TRUE, <<Dep("id_txt2img", "click", 4, TxtInputs),
                   Dep("id_img2img", "click", 4, ImgInputs)>>,
           <<>>, {"p1", "p2", "q1"}),
      Demo(TRUE, <<Dep("id_txt2img", "click", 4, TxtInputs)>>, <<>>, {"p1"}) }

GetParamsComponents ==
    /\ calls < MaxCalls
    /\ \E d \in Demos : get_params_components(d)

\* the component slots on_ui_tabs has filled when the app starts
SlotStates ==
    { AllSlots, {}, AllSlots \ {"merge2"}, AllSlots \ {"rand_merge"},
      AllSlots \ {"xysettings"} }

InitUI ==
    /\ loraModule = "absent"
    /\ available_loras = <<>>
    /\ loraDir = "None"
    /\ files = <<>>
    /\ prompt = PyNone
    /\ selectable_loras = PyNone
    /\ pc = "idle"
    /\ parsed = <<>>
    /\ output_name_lookup = EmptyLookup
    /\ scanned = <<>>
    /\ cursor = 1
    /\ checked_loras = <<>>
    /\ formatted_parts = <<>>
    /\ result = NoResult
    /\ txt2img_gen_button = "None"
    /\ img2img_gen_button = "None"
    /\ events_assigned = FALSE
    /\ txt2img_params = Unset
    /\ img2img_params = Unset
    /\ slots \in SlotStates
    /\ wired = NoHandlers
    /\ demo = Demo(FALSE, <<>>, <<>>, {})
    /\ outcome = "none"
    /\ before = [txt |-> Unset, img |-> Unset, events |-> FALSE, wired |-> NoHandlers,
                 txt_button |-> "None", img_button |-> "None"]
    /\ calls = 0

NextUI == AfterComponent \/ GetParamsComponents

SpecUI == InitUI /\ [][NextUI]_vars

(***************************************************************************)
(* Properties of extract_loras_from_prompt (specification Spec)            *)
(***************************************************************************)
IsText(x) == x.t = "str" /\ x.v # <<>>
Sel == SelectableOrEmpty(selectable_loras)
Matches == IF IsText(prompt) THEN FindIter(prompt.v, 1) ELSE <<>>

\* what the policy records for a reference name: nothing, or one identifier
Recorded(name) ==
    IF InList(name, Sel) THEN <<name>>
    ELSE IF PyStr(name) \in DOMAIN output_name_lookup
            /\ InList(output_name_lookup[PyStr(name)], Sel)
         THEN <<output_name_lookup[PyStr(name)]>>
    ELSE <<>>

StartsWith(s, pre) == Len(pre) <= Len(s) /\ SubSeq(s, 1, Len(pre)) = pre

PromptATA ==
    PyStr(RefText(NameA, <<"1">>, PyNone) \o RefText(NameT, <<"1">>, PyNone)
          \o RefText(NameA, <<"1">>, PyNone))
PromptOops == PyStr(RefText(NameA, <<"o", "o", "p", "s">>, PyNone))

\* C1: first match wins.  After each iteration the matched list is, reference
\* by reference, the name itself when it is selectable, else the identifier
\* the output-name index maps it to when that identifier is selectable, else
\* nothing; the reference's canonical part is there in each case; and every
\* matched element is a member of selectable_loras.
C1_MatchingPolicy ==
    pc \in {"loop", "done"} =>
        /\ checked_loras =
              Flatten([k \in 1..(cursor - 1) |-> Recorded(parsed[k].name)])
        /\ \A k \in 1..Len(checked_loras) : InList(checked_loras[k], Sel)
        /\ Len(formatted_parts) = cursor - 1
        /\ \A k \in 1..(cursor - 1) :
              StartsWith(formatted_parts[k], parsed[k].name \o <<":">>)
        /\ (pc = "done" => result.matched = checked_loras)

\* a reference resolved through the output-name index, and one left unmatched
C1_Witness ==
    /\ pc = "done"
    /\ Len(parsed) = 1
    /\ parsed[1].name = NameT
    /\ ~InList(NameT, Sel)
    /\ result.matched = <<NameF>>
    /\ result.canonical # <<>>

\* C2: neither build_output_name_lookup nor extract_loras_from_prompt ever
\* surfaces an exception, whatever the state of the metadata sources.
C2_NeverRaises == pc # "raised"

\* C4: the canonical string has one part per reference in occurrence order,
\* and the matched list holds the matched identifiers in occurrence order,
\* duplicates kept: the r-th matched element belongs to the r-th matching
\* reference.
C4_OrderAndDuplicates ==
    (pc = "done" /\ IsText(prompt)) =>
        LET n == Len(Matches)
            hits == {k \in 1..n : Recorded(PyStrip(Matches[k].g1)) # <<>>}
            rank(k) == Cardinality({j \in hits : j <= k})
        IN  /\ Len(formatted_parts) = n
            /\ \A k \in 1..n :
                  StartsWith(formatted_parts[k], PyStrip(Matches[k].g1) \o <<":">>)
            /\ result.canonical = Join(<<",">>, formatted_parts)
            /\ Len(result.matched) = Cardinality(hits)
            /\ \A k \in hits :
                  result.matched[rank(k)] = Recorded(PyStrip(Matches[k].g1))[1]
            /\ (prompt = PromptATA /\ Sel = <<NameA, NameT>> =>
                  /\ result.matched = <<NameA, NameT, NameA>>
                  /\ result.canonical =
                        <<"A", ":", "1", ".", "0", ",", "T", ":", "1", ".", "0", ",",
                          "A", ":", "1", ".", "0">>)

\* "<lora:A:1><lora:T:1><lora:A:1>" against ["A", "T"] has returned
C4_Witness ==
    /\ pc = "done"
    /\ prompt = PromptATA
    /\ Sel = <<NameA, NameT>>
    /\ result.matched = <<NameA, NameT, NameA>>

NoReference == ~IsText(prompt) \/ Matches = <<>>

\* C5: a prompt that yields no reference returns ([], "") with no error, for
\* every selectable list and every state of the metadata sources.
C5_NoReferenceGivesEmpty ==
    (pc \in {"done", "raised"} /\ NoReference) => (pc = "done" /\ result = NoResult)

\* C6: a reference whose weight field float() rejects is still produced, with
\* weight 1.0, and its canonical part is rendered with "1.0".
C6_BadWeightDefaults ==
    (pc \in {"loop", "done"} /\ IsText(prompt)) =>
        /\ Len(parsed) = Len(Matches)
        /\ \A k \in 1..Len(Matches) :
              ~PyFloat(Matches[k].g2).ok =>
                  /\ parsed[k].weight = [neg |-> FALSE, ip |-> 1, fp |-> <<>>]
                  /\ k < cursor =>
                        StartsWith(formatted_parts[k],
                                   PyStrip(Matches[k].g1) \o <<":", "1", ".", "0">>)
                  /\ (k < cursor /\ ~Truthy(parsed[k].lbw)) =>
                        formatted_parts[k] =
                            PyStrip(Matches[k].g1) \o <<":", "1", ".", "0">>
        /\ (pc = "done" /\ prompt = PromptOops /\ InList(NameA, Sel)) =>
              result = [matched |-> <<NameA>>, canonical |-> <<"A", ":", "1", ".", "0">>]

\* "<lora:A:oops>" with A selectable has returned (["A"], "A:1.0")
C6_Witness ==
    /\ pc = "done"
    /\ prompt = PromptOops
    /\ InList(NameA, Sel)
    /\ result.canonical = <<"A", ":", "1", ".", "0">>

\* C7 as stated: the canonical part of a reference written with a third field
\* ends with that field exactly as written in the prompt.
C7_LbwUnchanged ==
    (pc = "done" /\ IsText(prompt)) =>
        \A k \in 1..Len(Matches) :
            Matches[k].has3 =>
                formatted_parts[k] =
                    PyStrip(Matches[k].g1) \o <<":">> \o FormatFloat(parsed[k].weight)
                    \o <<":">> \o Matches[k].g3

\* C7 amended: the third field is carried through with the whitespace around
\* it removed and nothing else changed; a third field of whitespace only is
\* dropped, and the part is "name:weight".
C7_LbwStripped ==
    (pc = "done" /\ IsText(prompt)) =>
        \A k \in 1..Len(Matches) :
            Matches[k].has3 =>
                LET m == Matches[k]
                    head == PyStrip(m.g1) \o <<":">> \o FormatFloat(parsed[k].weight)
                    inner == {j \in 1..Len(m.g3) : m.g3[j] \notin Whitespace}
                IN  IF inner = {}
                    THEN formatted_parts[k] = head
                    ELSE \E a, b \in inner :
                            /\ \A j \in inner : a <= j /\ j <= b
                            /\ formatted_parts[k] = head \o <<":">> \o SubSeq(m.g3, a, b)

\* a third field written with whitespace around it has been rendered
C7_Witness ==
    /\ pc = "done"
    /\ IsText(prompt)
    /\ \E k \in 1..Len(Matches) :
          /\ Matches[k].has3
          /\ Matches[k].g3[1] \in Whitespace
          /\ \E j \in 1..Len(Matches[k].g3) : Matches[k].g3[j] \notin Whitespace
          /\ Len(formatted_parts[k]) > 0

(***************************************************************************)
(* Properties of build_output_name_lookup (specification SpecIndex)        *)
(***************************************************************************)
\* C3: no key of a returned mapping equals the identifier it maps to, and no
\* key is case-insensitively "merged", whichever source produced the mapping.
C3_NoSelfNoMerged ==
    pc = "built" =>
        \A key \in DOMAIN output_name_lookup :
            /\ key.v # output_name_lookup[key]
            /\ PyLower(key.v) # <<"m", "e", "r", "g", "e", "d">>

\* C8: with the registry module importable the mapping comes from registry
\* entries only and no file is opened, even when the registry yields nothing;
\* files are opened only without the registry module; and without it an
\* unresolvable or missing directory gives the empty mapping.
C8_SourcePriority ==
    pc \in {"built", "raised"} =>
        /\ loraModule # "absent" =>
              /\ scanned = <<>>
              /\ \A key \in DOMAIN output_name_lookup :
                    \E k \in 1..Len(available_loras) :
                        /\ available_loras[k].name = output_name_lookup[key]
                        /\ available_loras[k].hasMeta
                        /\ available_loras[k].metadata.ss = key
        /\ scanned # <<>> => (loraModule = "absent" /\ loraDir = "exists")
        /\ (loraModule = "absent" /\ loraDir # "exists") =>
              (pc = "built" /\ output_name_lookup = <<>> /\ scanned = <<>>)

\* the registry yielded nothing while a file on disk carried an output name
C8_Witness ==
    /\ pc = "built"
    /\ loraModule = "ok"
    /\ output_name_lookup = <<>>
    /\ \E k \in 1..Len(files) : files[k].hasMeta /\ files[k].metadata.ss.t = "str"
    /\ scanned = <<>>

\* a file whose header carries a usable ss_output_name
CarriesName(f) ==
    /\ f.io = "ok"
    /\ f.header = "dict"
    /\ f.hasMeta
    /\ f.metadata.t = "dict"
    /\ f.metadata.ss.t = "str"
    /\ f.metadata.ss.v # <<>>

\* C9: in the file scan a failure on one file only skips that file: the scan
\* completes, and the output name of every file that carries one is a key of
\* the mapping, mapped to the stem of a file that carries that name.
C9_ScanSkipsBadFiles ==
    (pc \in {"built", "raised"} /\ loraModule = "absent" /\ loraDir = "exists") =>
        /\ pc = "built"
        /\ \A k \in 1..Len(files) :
              CarriesName(files[k]) =>
                  /\ files[k].metadata.ss \in DOMAIN output_name_lookup
                  /\ \E j \in 1..Len(files) :
                        /\ CarriesName(files[j])
                        /\ files[j].metadata.ss = files[k].metadata.ss
                        /\ output_name_lookup[files[k].metadata.ss] = files[j].stem

(***************************************************************************)
(* Properties of GenParamGetter (specification SpecUI)                     *)
(***************************************************************************)
\* no click dependency with 4 outputs and matching inputs for the button
NoValidDependency(d, id) == TabParams(d, id).kind = "skip"

\* C10: when a generate button was never captured, or the txt2img button has
\* no valid click dependency, get_params_components returns normally, wires no
\* handler, leaves events_assigned False and leaves the registry unchanged.
C10_AbsentUiIsHarmless ==
    (/\ outcome # "none"
     /\ ~before.events
     /\ \/ before.txt_button = "None"
        \/ before.img_button = "None"
        \/ NoValidDependency(demo, before.txt_button)) =>
        /\ outcome = "returned"
        /\ wired = before.wired
        /\ ~events_assigned
        /\ txt2img_params = before.txt
        /\ img2img_params = before.img

\* C11: after any sequence of after_component and get_params_components
\* calls each SuperMerger button has at most one click handler; events_assigned
\* is True only if all eleven handlers were wired; and a call that finds
\* events_assigned True leaves it True and wires nothing.
C11_HandlersWiredOnce ==
    /\ \A b \in Buttons : wired[b] <= 1
    /\ events_assigned => \A b \in Buttons : wired[b] >= 1
    /\ before.events => (events_assigned /\ wired = before.wired)

\* the parts of C11 that do not count the handlers of a button
C11_FlagIsSound ==
    /\ events_assigned => \A b \in Buttons : wired[b] >= 1
    /\ before.events => (events_assigned /\ wired = before.wired)

====
